---- MODULE Spec2Model ----
(***************************************************************************)
(* Model of http-launch (src/src/http-launch.c): the HTTP front door of a  *)
(* GStreamer pipeline.  A GLib main loop (the reactor) accepts clients,    *)
(* accumulates request bytes, parses HEAD/GET request lines, routes them   *)
(* to an endpoint (a multisocketsink) and hands the socket to that sink.   *)
(* The sink's streaming thread calls back into on_stream_caps_changed and  *)
(* on_client_socket_removed.                                               *)
(*                                                                         *)
(* Bytes are kept as runs [ch, n]: n copies of byte ch.  Only the filler   *)
(* byte FILL ever has n > 1, which lets a buffer reach the real 1 MiB      *)
(* ceiling of on_read_bytes without a million-element sequence.            *)
(***************************************************************************)
EXTENDS Integers, Sequences, FiniteSets, TLC

\* ------------------------------------------------------------------ bounds
MaxClients == 2      \* connections accepted in one run
MaxReads == 2        \* readable events delivered in one run
MaxNotify == 2       \* notify::caps signals emitted by the pipeline
MaxRelease == 2      \* remove_client runs recorded per client

\* ------------------------------------------------------------------ bytes
NUL == 0
CR == 13
LF == 10
SP == 32
SLASH == 47
MAX_MESSAGE == 1048576

B(c) == [ch |-> c, n |-> 1]
Bytes(s) == [i \in 1..Len(s) |-> B(s[i])]
\* k filler bytes ("x"), none of them a delimiter of the protocol
Filler(k) == <<[ch |-> 120, n |-> k]>>

RECURSIVE ByteLen(_)
ByteLen(buf) == IF buf = <<>> THEN 0 ELSE Head(buf).n + ByteLen(Tail(buf))

HEAD_TOKEN == Bytes(<<72, 69, 65, 68>>)
GET_TOKEN == Bytes(<<71, 69, 84>>)
HTTP_1_0 == Bytes(<<72, 84, 84, 80, 47, 49, 46, 48>>)
HTTP_1_1 == Bytes(<<72, 84, 84, 80, 47, 49, 46, 49>>)

\* ------------------------------------------------------------------ strings
\* The C string at the start of a byte array: everything before the first NUL.
RECURSIVE CString(_)
CString(buf) ==
    IF buf = <<>> \/ Head(buf).ch = NUL THEN <<>>
    ELSE <<Head(buf)>> \o CString(Tail(buf))

\* g_str_has_prefix
HasPrefix(s, p) == Len(s) >= Len(p) /\ SubSeq(s, 1, Len(p)) = p

\* g_strsplit_set / g_strsplit with delimiters that are single bytes: the
\* empty string gives the empty vector, otherwise one token more than there
\* are delimiters (empty tokens included).
RECURSIVE SplitFrom(_, _, _)
SplitFrom(s, delims, cur) ==
    IF s = <<>> THEN <<cur>>
    ELSE IF Head(s).ch \in delims
         THEN <<cur>> \o SplitFrom(Tail(s), delims, <<>>)
         ELSE SplitFrom(Tail(s), delims, Append(cur, Head(s)))

StrSplit(s, delims) == IF s = <<>> THEN <<>> ELSE SplitFrom(s, delims, <<>>)

\* ------------------------------------------------------------------ endpoints
\* main() makes one EndPoint per multisocketsink of the pipeline; endpoint e
\* is named by the single letter with code 96 + e ("a", "b", ...).
NumEndpoints == 1
EndpointIds == 1..NumEndpoints
EndpointName(e) == Bytes(<<96 + e>>)
ContentTypes == {1, 2}

\* g_list_find_custom (endpoints, name, endpoint_compare_by_name): the first
\* endpoint with that name, 0 (NULL) when there is none.
FindEndpoint(name) ==
    IF \E e \in EndpointIds : EndpointName(e) = name
    THEN CHOOSE e \in EndpointIds :
            /\ EndpointName(e) = name
            /\ \A f \in EndpointIds : EndpointName(f) = name => e <= f
    ELSE 0

\* ------------------------------------------------------------------ parser
\* What client_message reads off the request: lines[0] is the text before
\* the first CR or LF, parts its split on " ", path_parts parts[1] split on "/".
RequestLine(data) ==
    LET lines == StrSplit(CString(data), {CR, LF})
    IN  IF lines = <<>> THEN <<>> ELSE lines[1]

ParseRequest(data) ==
    LET line == RequestLine(data)
        head == HasPrefix(line, HEAD_TOKEN)
        get == ~head /\ HasPrefix(line, GET_TOKEN)
        parts == StrSplit(line, {SP})
        has_path == Len(parts) >= 2
        version == IF has_path /\ Len(parts) >= 3 /\ parts[3] # <<>>
                   THEN parts[3] ELSE HTTP_1_0
        path_parts == IF has_path THEN StrSplit(parts[2], {SLASH}) ELSE <<>>
        nb_parts == Len(path_parts)
    IN  [http_head_request |-> head,
         http_get_request |-> get,
         version |-> version,
         nb_parts |-> nb_parts,
         endpoint |-> IF nb_parts > 1 THEN FindEndpoint(path_parts[2]) ELSE 0]

\* ------------------------------------------------------------------ buffer
\* The boundary scan of on_read_bytes (lines 302-321): the first position,
\* at or after item `from`, where CR LF CR LF stands; 0 when there is none.
IsTerminatorAt(buf, i) ==
    /\ i + 3 <= Len(buf)
    /\ buf[i] = B(CR) /\ buf[i + 1] = B(LF)
    /\ buf[i + 2] = B(CR) /\ buf[i + 3] = B(LF)

FirstTerminator(buf, from) ==
    IF \E i \in from..Len(buf) : IsTerminatorAt(buf, i)
    THEN CHOOSE i \in from..Len(buf) :
            /\ IsTerminatorAt(buf, i)
            /\ \A j \in from..(i - 1) : ~IsTerminatorAt(buf, j)
    ELSE 0

\* tmp - client->current_message->data for a match at item i
ByteOffset(buf, i) == ByteLen(SubSeq(buf, 1, i - 1))

\* len = tmp - client->current_message->data + 5   (line 307)
RequestLen(buf, i) == ByteOffset(buf, i) + 5

\* g_byte_array_append (client->current_message, "\0", 1)   (line 306)
AppendNul(buf) == Append(buf, B(NUL))

\* g_byte_array_remove_range (array, 0, len)
RECURSIVE RemoveRange(_, _)
RemoveRange(buf, len) ==
    IF len <= 0 \/ buf = <<>> THEN buf
    ELSE IF Head(buf).n <= len THEN RemoveRange(Tail(buf), len - Head(buf).n)
    ELSE <<[ch |-> Head(buf).ch, n |-> Head(buf).n - len]>> \o Tail(buf)

\* ------------------------------------------------------------------ inputs
\* What one readable event can deliver (everything the read loop of lines
\* 286-291 appends before the stream would block).
CRLF == Bytes(<<CR, LF>>)
HeadA == HEAD_TOKEN \o Bytes(<<SP, SLASH, 97>>)                \* HEAD /a
GetA == GET_TOKEN \o Bytes(<<SP, SLASH, 97, SP>>) \o HTTP_1_1  \* GET /a HTTP/1.1
GetZ == GET_TOKEN \o Bytes(<<SP, SLASH, 122>>)                 \* GET /z
PutA == Bytes(<<80, 85, 84, SP, SLASH, 97>>)                   \* PUT /a

Chunks ==
    { HeadA \o CRLF \o CRLF,
      GetA \o CRLF \o CRLF,
      GetZ \o CRLF \o CRLF,
      PutA \o CRLF \o CRLF,
      HeadA \o CRLF,
      CRLF,
      HeadA \o CRLF \o CRLF \o HeadA \o CRLF \o CRLF,
      GetA \o CRLF \o CRLF \o Filler(1) \o GetA \o CRLF \o CRLF,
      Filler(MAX_MESSAGE - 1),
      Filler(MAX_MESSAGE) }

\* ------------------------------------------------------------------ state
ClientIds == 1..MaxClients

VARIABLES
    clients,       \* GList *clients, head first
    client,        \* the Client structs, by id
    endpoints,     \* the EndPoint structs, by id
    started,       \* gboolean started
    caps_lock,     \* G_LOCK (caps): "none", "reactor" or "sink"
    clients_lock,  \* G_LOCK (clients)
    reactor,       \* where the main-loop thread is
    sink,          \* where the sink's streaming thread is
    crashed,       \* the process died (SIGSEGV, abort)
    nconn,         \* connections accepted so far
    nreads,        \* readable events delivered so far
    nnotify,       \* notify::caps signals emitted so far
    locklog        \* the lock operations of the last handler step, in order

vars == <<clients, client, endpoints, started, caps_lock, clients_lock,
          reactor, sink, crashed, nconn, nreads, nnotify, locklog>>

\* A Client before on_new_connection fills it in.  The fields from released
\* on record what happened to the session; the code keeps no such fields:
\*   released      how often remove_client released the struct (lines 86-100)
\*   sent          the responses written to the peer, oldest first
\*   handoffs      how often add-full was emitted for the socket
\*   in_sink       the sink holds the socket
\*   requests      how often client_message was called
\*   routed        how many of these calls found an endpoint
\*   last_request  how the last call disposed of the request
\*   write_failed  a write to the peer failed
\*   timed_out     on_timeout was dispatched
\*   uaf           a handler went on with the struct after its release
NoClient ==
    [isource |-> "null", tosource |-> "null", current_message |-> <<>>,
     http_version |-> <<>>, waiting_200_ok |-> FALSE, endpoint |-> 0,
     released |-> 0, sent |-> <<>>, handoffs |-> 0, in_sink |-> FALSE,
     requests |-> 0, routed |-> 0, last_request |-> "none",
     write_failed |-> FALSE, timed_out |-> FALSE, uaf |-> FALSE]

\* on_new_connection, lines 344-380
NewClient == [NoClient EXCEPT !.isource = "armed", !.tosource = "armed"]

Idle == [pc |-> "idle", c |-> 0, get |-> FALSE]

Init ==
    /\ clients = <<>>
    /\ client = [c \in ClientIds |-> NoClient]
    /\ endpoints = [e \in EndpointIds |-> [content_type |-> 0, caps_resolved |-> FALSE]]
    /\ started = FALSE
    /\ caps_lock = "none"
    /\ clients_lock = "none"
    /\ reactor = Idle
    /\ sink = Idle
    /\ crashed = FALSE
    /\ nconn = 0
    /\ nreads = 0
    /\ nnotify = 0
    /\ locklog = [thread |-> "none", ops |-> <<>>]

Min(a, b) == IF a < b THEN a ELSE b

InClients(c) == \E i \in 1..Len(clients) : clients[i] = c

\* ------------------------------------------------------------------ locks
\* G_LOCK / G_UNLOCK on one of the two static mutexes, "caps" and "clients"
Lock(x) == [op |-> "lock", lock |-> x]
Unlock(x) == [op |-> "unlock", lock |-> x]

\* who holds the mutex, "none" when it is free
Holder(x) == IF x = "caps" THEN caps_lock ELSE clients_lock

\* A GMutex is not recursive: of the operations `ops` a thread runs through
\* with `held` in hand, those it gets to, ending with the G_LOCK it cannot
\* get past (the mutex is held, by another thread or by itself).
RECURSIVE Executed(_, _)
Executed(ops, held) ==
    IF ops = <<>> THEN <<>>
    ELSE LET o == Head(ops)
         IN  IF o.op = "unlock"
             THEN <<o>> \o Executed(Tail(ops), held \ {o.lock})
             ELSE IF o.lock \in held \/ Holder(o.lock) # "none"
             THEN <<o>>
             ELSE <<o>> \o Executed(Tail(ops), held \cup {o.lock})

Log(thread, ops) == [thread |-> thread, ops |-> Executed(ops, {})]

\* remove_client, lines 82-84
LocksOfRemoveClient == <<Lock("clients"), Unlock("clients")>>

\* on_new_connection, lines 382-384
LocksOfNewConnection == <<Lock("clients"), Unlock("clients")>>

\* client_message, lines 198-203; send_response_200_ok runs inside and its
\* write_bytes calls remove_client when the write fails
LocksOfRoute(write_fails) ==
    <<Lock("caps")>>
    \o (IF write_fails THEN LocksOfRemoveClient ELSE <<>>)
    \o <<Unlock("caps")>>

\* a rejected request: remove_client from write_bytes when the response
\* cannot be written, and remove_client at line 315
LocksOfReject(removals) ==
    IF removals = 2 THEN LocksOfRemoveClient \o LocksOfRemoveClient
    ELSE LocksOfRemoveClient

\* on_stream_caps_changed with the clients lock taken before the caps lock
LocksOfNotifyClientsFirst(write_fails) ==
    <<Lock("clients"), Lock("caps")>>
    \o (IF write_fails THEN LocksOfRemoveClient ELSE <<>>)
    \o <<Unlock("caps"), Unlock("clients")>>

\* on_stream_caps_changed, lines 473-486; send_response_200_ok runs inside
LocksOfNotify(write_fails) ==
    <<Lock("caps"), Lock("clients")>>
    \o (IF write_fails THEN LocksOfRemoveClient ELSE <<>>)
    \o <<Unlock("clients"), Unlock("caps")>>

\* on_client_socket_removed, lines 434-442
LocksOfSocketRemoved == <<Lock("clients"), Unlock("clients")>>

\* ------------------------------------------------------------------ remove_client
\* g_list_remove whose result is dropped: the list keeps the client
ListRemoveKeeps(list, c) == list

\* clients = g_list_remove (clients, client)   (line 83)
ListRemove(list, c) == SelectSeq(list, LAMBDA x : x # c)

\* lines 86-100: the sources are destroyed and every resource is released;
\* nothing here looks at whether the struct was released before.
ReleaseOnce(cl) ==
    [cl EXCEPT !.released = Min(@ + 1, MaxRelease),
               !.isource = IF @ = "armed" THEN "destroyed" ELSE @,
               !.tosource = IF @ = "armed" THEN "destroyed" ELSE @]

RECURSIVE Release(_, _)
Release(cl, times) == IF times = 0 THEN cl ELSE Release(ReleaseOnce(cl), times - 1)

\* ------------------------------------------------------------------ reactor
ReactorIdle == ~crashed /\ reactor.pc = "idle"

\* A handler of the main loop that reaches G_LOCK while the streaming thread
\* holds the lock stays there.
Blocked(c) == [pc |-> "blocked", c |-> c, get |-> FALSE]

\* remove_client called from a handler that returns right after it
\* (on_timeout, the EOF and error branches and the ceiling of on_read_bytes).
RemoveAndReturn(c, cl) ==
    /\ locklog' = Log("reactor", LocksOfRemoveClient)
    /\ IF clients_lock = "none"
       THEN /\ clients' = ListRemove(clients, c)
            /\ client' = [client EXCEPT ![c] = ReleaseOnce(cl)]
            /\ reactor' = Idle
       ELSE /\ client' = [client EXCEPT ![c] = cl]
            /\ reactor' = Blocked(c)
            /\ UNCHANGED clients

\* on_new_connection, lines 340-387
OnNewConnection ==
    /\ ReactorIdle
    /\ nconn < MaxClients
    /\ nconn' = nconn + 1
    /\ client' = [client EXCEPT ![nconn + 1] = NewClient]
    /\ IF clients_lock = "none"
       THEN clients' = <<nconn + 1>> \o clients /\ UNCHANGED reactor
       ELSE reactor' = Blocked(nconn + 1) /\ UNCHANGED clients
    /\ locklog' = Log("reactor", LocksOfNewConnection)
    /\ UNCHANGED <<endpoints, started, caps_lock, clients_lock, sink, crashed, nreads, nnotify>>

\* on_timeout, lines 270-277
OnTimeout(c) ==
    /\ ReactorIdle
    /\ client[c].tosource = "armed"
    /\ RemoveAndReturn(c, [client[c] EXCEPT !.timed_out = TRUE])
    /\ UNCHANGED <<endpoints, started, caps_lock, clients_lock, sink, crashed,
                   nconn, nreads, nnotify>>

\* on_read_bytes, lines 286-301: the read loop appended `chunk` and the
\* stream would block; the scan of the buffer follows.
OnReadBytes(c, chunk) ==
    /\ ReactorIdle
    /\ client[c].isource = "armed"
    /\ nreads < MaxReads
    /\ nreads' = nreads + 1
    /\ client' = [client EXCEPT ![c].current_message = @ \o chunk]
    /\ reactor' = [pc |-> "scan", c |-> c, get |-> FALSE]
    /\ locklog' = Log("reactor", <<>>)
    /\ UNCHANGED <<clients, endpoints, started, caps_lock, clients_lock, sink,
                   crashed, nconn, nnotify>>

\* on_read_bytes, lines 293-295: the peer closed the connection (r == 0)
OnReadClosed(c) ==
    /\ ReactorIdle
    /\ client[c].isource = "armed"
    /\ RemoveAndReturn(c, client[c])
    /\ UNCHANGED <<endpoints, started, caps_lock, clients_lock, sink, crashed,
                   nconn, nreads, nnotify>>

\* on_read_bytes, lines 330-335: a read error other than would-block
OnReadError(c) ==
    /\ ReactorIdle
    /\ client[c].isource = "armed"
    /\ RemoveAndReturn(c, client[c])
    /\ UNCHANGED <<endpoints, started, caps_lock, clients_lock, sink, crashed,
                   nconn, nreads, nnotify>>

\* The reactor is inside the scan loop of on_read_bytes for a client that
\* nobody released in the meantime.
Scanning(c) ==
    /\ ~crashed
    /\ reactor.pc = "scan"
    /\ reactor.c = c
    /\ client[c].released = 0

\* the ceiling test with > for >=
OverCeilingStrict(buf) == ByteLen(buf) > MAX_MESSAGE

\* client->current_message->len >= 1024 * 1024   (line 323)
OverCeiling(buf) == ByteLen(buf) >= MAX_MESSAGE

\* on_read_bytes, lines 323-329: the loop found no terminator
ScanDone(c) ==
    /\ Scanning(c)
    /\ FirstTerminator(client[c].current_message, 1) = 0
    /\ IF OverCeiling(client[c].current_message)
       THEN RemoveAndReturn(c, client[c])
       ELSE /\ reactor' = Idle
            /\ locklog' = Log("reactor", <<>>)
            /\ UNCHANGED <<clients, client>>
    /\ UNCHANGED <<endpoints, started, caps_lock, clients_lock, sink, crashed,
                   nconn, nreads, nnotify>>

\* ------------------------------------------------------------------ client_message
\* How client_message (lines 157-268) disposes of a request:
\*   "bad"      neither HEAD nor GET: 400, ret stays FALSE       (261-263)
\*   "nopath"   no path, or a path of one part: no response, ret FALSE
\*   "unknown"  no endpoint of that name: 404, ret stays FALSE   (205-209)
\*   "routed"   endpoint found: 200 now or later, ret = TRUE     (194-204)
Disposition(req) ==
    IF ~(req.http_head_request \/ req.http_get_request) THEN "bad"
    ELSE IF req.nb_parts <= 1 THEN "nopath"
    ELSE IF req.endpoint = 0 THEN "unknown"
    ELSE "routed"

\* the gboolean client_message returns
Ret(disp) == disp = "routed"

Response(code, version, content_type) ==
    [code |-> code, version |-> version, content_type |-> content_type]

\* the 400 branch calling send_response_404_not_found
ErrorCodeAlways404(disp) == IF disp \in {"bad", "unknown"} THEN 404 ELSE 0

\* send_response_404_not_found / send_response_400_not_found; 0 for none
ErrorCode(disp) ==
    CASE disp = "bad" -> 400
      [] disp = "unknown" -> 404
      [] OTHER -> 0

\* g_free (client->http_version) and lines 177-180; the 400 branch leaves
\* the field as it was.
VersionAfter(cl, req, disp) == IF disp = "bad" THEN cl.http_version ELSE req.version

\* The position of the request the scan loop stops at, 0 when there is none.
NextRequest(c) == FirstTerminator(client[c].current_message, 1)

\* on_read_bytes lines 303-316 with client_message returning FALSE: the
\* response (if any) is written, write_bytes removes the client when the
\* write fails, and line 315 removes it; the loop then goes on with tmp and
\* tmp_len as they were.
RequestRejected(c, ok) ==
    /\ Scanning(c)
    /\ NextRequest(c) # 0
    /\ LET cl == client[c]
           data == AppendNul(cl.current_message)
           req == ParseRequest(data)
           disp == Disposition(req)
           code == ErrorCode(disp)
           version == VersionAfter(cl, req, disp)
           cl1 == [cl EXCEPT !.current_message = data,
                             !.http_version = version,
                             !.requests = @ + 1,
                             !.last_request = disp,
                             !.write_failed = @ \/ (code # 0 /\ ~ok),
                             !.sent = IF code # 0 /\ ok
                                      THEN Append(@, Response(code, version, 0))
                                      ELSE @]
           removals == IF code # 0 /\ ~ok THEN 2 ELSE 1
       IN  /\ ~Ret(disp)
           /\ code = 0 => ok
           /\ locklog' = Log("reactor", LocksOfReject(removals))
           /\ IF clients_lock = "none"
              THEN /\ clients' = ListRemove(clients, c)
                   /\ client' = [client EXCEPT ![c] = Release(cl1, removals)]
                   /\ reactor' = [pc |-> "freed_in_loop", c |-> c, get |-> FALSE]
              ELSE /\ client' = [client EXCEPT ![c] = cl1]
                   /\ reactor' = Blocked(c)
                   /\ UNCHANGED clients
    /\ UNCHANGED <<endpoints, started, caps_lock, clients_lock, sink, crashed,
                   nconn, nreads, nnotify>>

\* the GET branch retiring the read watcher and leaving the timer armed
HandOffKeepsTimer(cl) ==
    [cl EXCEPT !.isource = "null", !.handoffs = @ + 1, !.in_sink = TRUE]

\* client_message lines 237-249: a GET that resolved retires both sources
\* and hands the socket to the endpoint's sink (add-full).
HandOff(cl) ==
    [cl EXCEPT !.isource = "null", !.tosource = "null",
               !.handoffs = @ + 1, !.in_sink = TRUE]

\* on_read_bytes lines 303-312 with client_message returning TRUE.
RequestRouted(c, ok) ==
    /\ Scanning(c)
    /\ NextRequest(c) # 0
    /\ LET cl == client[c]
           i == NextRequest(c)
           data == AppendNul(cl.current_message)
           len == RequestLen(cl.current_message, i)
           req == ParseRequest(data)
           disp == Disposition(req)
           e == req.endpoint
           cl1 == [cl EXCEPT !.current_message = data,
                             !.http_version = req.version,
                             !.endpoint = e,
                             !.requests = @ + 1,
                             !.routed = @ + 1,
                             !.last_request = disp]
           resolved == endpoints[e].caps_resolved
           cl2 == IF resolved
                  THEN [cl1 EXCEPT !.sent = Append(@,
                            Response(200, req.version, endpoints[e].content_type))]
                  ELSE [cl1 EXCEPT !.waiting_200_ok = TRUE]
           cl3 == IF req.http_get_request THEN HandOff(cl2) ELSE cl2
       IN  /\ Ret(disp)
           /\ ~resolved => ok
           /\ locklog' = Log("reactor", LocksOfRoute(resolved /\ ~ok))
           /\ IF caps_lock # "none"
              THEN \* G_LOCK (caps), line 198
                   /\ client' = [client EXCEPT ![c] = cl1]
                   /\ reactor' = Blocked(c)
                   /\ UNCHANGED <<clients, started>>
              ELSE IF ok
              THEN /\ client' = [client EXCEPT
                          ![c] = [cl3 EXCEPT !.current_message = RemoveRange(data, len)]]
                   /\ started' = TRUE
                   /\ UNCHANGED <<clients, reactor>>
              ELSE \* the 200 could not be written: write_bytes removed the
                   \* client, and client_message carries on with it
                   /\ clients' = ListRemove(clients, c)
                   /\ client' = [client EXCEPT
                          ![c] = ReleaseOnce([cl1 EXCEPT !.write_failed = TRUE])]
                   /\ reactor' = [pc |-> "freed_in_message", c |-> c,
                                  get |-> req.http_get_request]
                   /\ UNCHANGED started
    /\ UNCHANGED <<endpoints, caps_lock, clients_lock, sink, crashed, nconn, nreads, nnotify>>

\* ------------------------------------------------------------------ use after free
\* A handler that goes on with a Client that was released reads and writes
\* freed memory.  What follows is up to the allocator: the process dies, or
\* the stale struct still reads as before and the code carries on with it.
UsesFreed ==
    /\ ~crashed
    /\ \/ reactor.pc \in {"freed_in_message", "freed_in_loop"}
       \/ reactor.pc = "scan" /\ client[reactor.c].released > 0

UafCrash ==
    /\ UsesFreed
    /\ crashed' = TRUE
    /\ client' = [client EXCEPT ![reactor.c].uaf = TRUE]
    /\ locklog' = Log("reactor", <<>>)
    /\ UNCHANGED <<clients, endpoints, started, caps_lock, clients_lock, reactor,
                   sink, nconn, nreads, nnotify>>

\* the rest of client_message after a failed 200 (lines 237-259), on the
\* stale struct
UafMessageTail ==
    /\ UsesFreed
    /\ reactor.pc = "freed_in_message"
    /\ client' = [client EXCEPT ![reactor.c] =
            [(IF reactor.get THEN [@ EXCEPT !.handoffs = @ + 1, !.in_sink = TRUE] ELSE @)
                EXCEPT !.uaf = TRUE]]
    /\ started' = TRUE
    /\ reactor' = [reactor EXCEPT !.pc = "freed_in_loop"]
    /\ locklog' = Log("reactor", <<>>)
    /\ UNCHANGED <<clients, endpoints, caps_lock, clients_lock, sink, crashed,
                   nconn, nreads, nnotify>>

\* the scan loop matches the stale terminator again, or reads a stale length
\* over the ceiling: remove_client runs once more
UafRemoveAgain ==
    /\ UsesFreed
    /\ reactor.pc # "freed_in_message"
    /\ clients_lock = "none"
    /\ client[reactor.c].released < MaxRelease
    /\ client' = [client EXCEPT ![reactor.c] = [ReleaseOnce(@) EXCEPT !.uaf = TRUE]]
    /\ clients' = ListRemove(clients, reactor.c)
    /\ reactor' = [reactor EXCEPT !.pc = "freed_in_loop"]
    /\ locklog' = Log("reactor", LocksOfRemoveClient)
    /\ UNCHANGED <<endpoints, started, caps_lock, clients_lock, sink, crashed,
                   nconn, nreads, nnotify>>

\* the loop runs out and on_read_bytes returns
UafReturn ==
    /\ UsesFreed
    /\ reactor.pc # "freed_in_message"
    /\ client' = [client EXCEPT ![reactor.c].uaf = TRUE]
    /\ reactor' = Idle
    /\ locklog' = Log("reactor", <<>>)
    /\ UNCHANGED <<clients, endpoints, started, caps_lock, clients_lock, sink,
                   crashed, nconn, nreads, nnotify>>

\* ------------------------------------------------------------------ sink thread
SinkIdle == ~crashed /\ sink.pc = "idle"

\* on_stream_caps_changed, lines 454-470: the pad of endpoint e got caps of
\* type t.  The pipeline negotiates caps only once it is PLAYING.  Both
\* fields are written without a lock and without a look at their old value.
CapsResolved(ep, t) == [ep EXCEPT !.content_type = t, !.caps_resolved = TRUE]

OnStreamCapsChanged(e, t) ==
    /\ SinkIdle
    /\ started
    /\ nnotify < MaxNotify
    /\ nnotify' = nnotify + 1
    /\ endpoints' = [endpoints EXCEPT ![e] = CapsResolved(@, t)]
    /\ sink' = [pc |-> "notify", c |-> e, get |-> FALSE]
    /\ locklog' = Log("sink", <<>>)
    /\ UNCHANGED <<clients, client, started, caps_lock, clients_lock, reactor,
                   crashed, nconn, nreads>>

\* The loop of lines 476-483 over the list: the first client whose endpoint
\* is e and that waits for its 200.  cl->endpoint is dereferenced for every
\* client the loop reaches: a client without endpoint stops the process.
RECURSIVE FirstWaiting(_, _)
FirstWaiting(list, e) ==
    IF list = <<>> THEN [kind |-> "none", c |-> 0]
    ELSE IF client[Head(list)].endpoint = 0 THEN [kind |-> "null", c |-> Head(list)]
    ELSE IF client[Head(list)].endpoint = e /\ client[Head(list)].waiting_200_ok
         THEN [kind |-> "found", c |-> Head(list)]
    ELSE FirstWaiting(Tail(list), e)

\* line 480 left out: the flag stays set after the 200
AnsweredKeepsWaiting(cl, response) == [cl EXCEPT !.sent = Append(@, response)]

\* lines 479-480: the 200 went out and the flag is cleared
Answered(cl, response) ==
    [cl EXCEPT !.sent = Append(@, response), !.waiting_200_ok = FALSE]

\* on_stream_caps_changed, lines 473-488: with both locks held, the first
\* waiting client is sent its 200.  When that write fails, write_bytes
\* calls remove_client, which asks for the clients lock this thread holds.
NotifyWaiting(ok) ==
    /\ ~crashed
    /\ sink.pc = "notify"
    /\ caps_lock = "none"
    /\ clients_lock = "none"
    /\ LET found == FirstWaiting(clients, sink.c)
           c == found.c
           ops == LocksOfNotify(found.kind = "found" /\ ~ok)
       IN  /\ found.kind # "found" => ok
           /\ locklog' = Log("sink", IF found.kind = "null"
                                      THEN SubSeq(ops, 1, 2) ELSE ops)
           /\ CASE found.kind = "null" ->
                     /\ crashed' = TRUE
                     /\ sink' = [pc |-> "null_deref", c |-> c, get |-> FALSE]
                     /\ UNCHANGED <<client, caps_lock, clients_lock>>
                [] found.kind = "none" ->
                     /\ sink' = Idle
                     /\ UNCHANGED <<client, caps_lock, clients_lock, crashed>>
                [] found.kind = "found" /\ ok ->
                     /\ client' = [client EXCEPT ![c] = Answered(@,
                            Response(200, client[c].http_version,
                                     endpoints[sink.c].content_type))]
                     /\ sink' = Idle
                     /\ UNCHANGED <<caps_lock, clients_lock, crashed>>
                [] found.kind = "found" /\ ~ok ->
                     /\ caps_lock' = "sink"
                     /\ clients_lock' = "sink"
                     /\ sink' = [pc |-> "deadlock", c |-> c, get |-> FALSE]
                     /\ client' = [client EXCEPT ![c].write_failed = TRUE]
                     /\ UNCHANGED crashed
    /\ UNCHANGED <<clients, endpoints, started, reactor, nconn, nreads, nnotify>>

\* on_client_socket_removed, lines 434-442: the sink dropped the socket of
\* client c; the list is searched for its owner.
OnClientSocketRemoved(c) ==
    /\ SinkIdle
    /\ client[c].in_sink
    /\ clients_lock = "none"
    /\ client' = [client EXCEPT ![c].in_sink = FALSE]
    /\ sink' = IF InClients(c) THEN [pc |-> "remove", c |-> c, get |-> FALSE] ELSE Idle
    /\ locklog' = Log("sink", LocksOfSocketRemoved)
    /\ UNCHANGED <<clients, endpoints, started, caps_lock, clients_lock, reactor,
                   crashed, nconn, nreads, nnotify>>

\* on_client_socket_removed, lines 444-445: remove_client, after the lock
\* was given up
SinkRemoveClient ==
    /\ ~crashed
    /\ sink.pc = "remove"
    /\ clients_lock = "none"
    /\ clients' = ListRemove(clients, sink.c)
    /\ client' = [client EXCEPT ![sink.c] = ReleaseOnce(@)]
    /\ sink' = Idle
    /\ locklog' = Log("sink", LocksOfRemoveClient)
    /\ UNCHANGED <<endpoints, started, caps_lock, clients_lock, reactor, crashed,
                   nconn, nreads, nnotify>>

\* ------------------------------------------------------------------ specification
Next ==
    \/ OnNewConnection
    \/ \E c \in ClientIds : OnTimeout(c)
    \/ \E c \in ClientIds, chunk \in Chunks : OnReadBytes(c, chunk)
    \/ \E c \in ClientIds : OnReadClosed(c)
    \/ \E c \in ClientIds : OnReadError(c)
    \/ \E c \in ClientIds : ScanDone(c)
    \/ \E c \in ClientIds, ok \in BOOLEAN : RequestRejected(c, ok)
    \/ \E c \in ClientIds, ok \in BOOLEAN : RequestRouted(c, ok)
    \/ UafCrash
    \/ UafMessageTail
    \/ UafRemoveAgain
    \/ UafReturn
    \/ \E e \in EndpointIds, t \in ContentTypes : OnStreamCapsChanged(e, t)
    \/ \E ok \in BOOLEAN : NotifyWaiting(ok)
    \/ \E c \in ClientIds : OnClientSocketRemoved(c)
    \/ SinkRemoveClient

Spec == Init /\ [][Next]_vars

\* What the scheduling guarantees.  The main loop finishes the handler it
\* is in and dispatches a timer that is due; the streaming thread finishes
\* the callback it is in; a pipeline that is PLAYING negotiates the caps of
\* an endpoint, which emits notify::caps a first time.  Nothing makes a
\* peer send, close or reset, and nothing makes the caps change again.

\* The main loop is inside on_read_bytes.  Every step it can take there
\* consumes a request or leaves the handler, so a main loop that keeps
\* taking its steps is outside of the handler again and again.
ReactorBusy ==
    /\ ~crashed
    /\ reactor.pc \in {"scan", "freed_in_message", "freed_in_loop"}

SinkStep ==
    \/ \E ok \in BOOLEAN : NotifyWaiting(ok)
    \/ SinkRemoveClient

FirstNotification ==
    \E e \in EndpointIds, t \in ContentTypes :
        ~endpoints[e].caps_resolved /\ OnStreamCapsChanged(e, t)

LiveSpec ==
    /\ Spec
    /\ []<>(~ReactorBusy)
    /\ WF_vars(SinkStep)
    /\ WF_vars(FirstNotification)
    /\ \A c \in ClientIds : WF_vars(OnTimeout(c))

\* ------------------------------------------------------------------ properties
Count(sent, code) == Cardinality({i \in 1..Len(sent) : sent[i].code = code})
LastCode(sent) == IF sent = <<>> THEN 0 ELSE sent[Len(sent)].code
InClientsNext(c) == \E i \in 1..Len(clients') : clients'[i] = c
\* the reactor is inside a handler for client c
Handling(c) == reactor.c = c

\* C1: no session is released more than once: remove_client never runs on a
\* session it has already released.
C1_ReleasedAtMostOnce == \A c \in ClientIds : client[c].released <= 1

\* C2: when the readiness scan for endpoint E completes, every session of
\* the active set that is bound to E and waits for its 200 has been sent
\* exactly one 200 and waits no longer.
C2_ReadinessAnswersEveryWaiting ==
    [][(sink.pc = "notify" /\ sink'.pc = "idle") =>
          \A c \in ClientIds :
              (InClients(c) /\ client[c].endpoint = sink.c /\ client[c].waiting_200_ok)
              => /\ ~client'[c].waiting_200_ok
                 /\ Len(client'[c].sent) = Len(client[c].sent) + 1]_vars

\* C3 as stated: a client is sent at most one 200 over its lifetime.
C3_AtMostOne200 == \A c \in ClientIds : Count(client[c].sent, 200) <= 1

\* C3 as amended: a client is never sent more 200 responses than it made
\* requests that resolved to an endpoint.
C3_One200PerRoutedRequest ==
    \A c \in ClientIds : Count(client[c].sent, 200) <= client[c].routed

\* two HEAD requests of one client, each answered with a 200
C3_Witness ==
    \E c \in ClientIds :
        /\ client[c].routed = 2
        /\ Count(client[c].sent, 200) = 2
        /\ client[c].handoffs = 0

\* C4: once an endpoint's content_type is set, no step changes it.
C4_ContentTypeSetOnce ==
    [][\A e \in EndpointIds :
          endpoints[e].content_type # 0
          => endpoints'[e].content_type = endpoints[e].content_type]_vars

\* C5: remove_client is idempotent: on a session it has released, another
\* remove_client changes neither the active set nor the session (nothing is
\* released a second time).
C5_RemoveIdempotent ==
    \A c \in ClientIds :
        client[c].released >= 1
        => /\ ListRemove(clients, c) = clients
           /\ ReleaseOnce(client[c]) = client[c]

\* C6 as stated: the step that answers a request for an unknown endpoint
\* leaves the session in the active set, unreleased.
C6_NotFoundKeepsSession ==
    [][\A c \in ClientIds :
          (client'[c].requests = client[c].requests + 1
             /\ client'[c].last_request = "unknown")
          => InClientsNext(c) /\ client'[c].released = 0]_vars

\* C6 as amended: a request for an unknown endpoint is answered 404 (unless
\* the write fails) and the session is torn down: once remove_client has
\* returned, the session is out of the active set and released.
C6_NotFoundRemovesSession ==
    \A c \in ClientIds :
        (client[c].last_request = "unknown" /\ ~(reactor.pc = "blocked" /\ Handling(c)))
        => /\ ~InClients(c)
           /\ client[c].released >= 1
           /\ ~client[c].write_failed => LastCode(client[c].sent) = 404

C6_Witness ==
    \E c \in ClientIds :
        /\ client[c].last_request = "unknown"
        /\ client[c].sent = <<Response(404, HTTP_1_0, 0)>>
        /\ client[c].released = 1
        /\ ~InClients(c)
        /\ reactor.pc = "idle"

\* C7 as stated: the step that answers a request whose method is neither
\* GET nor HEAD leaves the session in the active set, unreleased.
C7_BadRequestKeepsSession ==
    [][\A c \in ClientIds :
          (client'[c].requests = client[c].requests + 1
             /\ client'[c].last_request = "bad")
          => InClientsNext(c) /\ client'[c].released = 0]_vars

\* C7 as amended: such a request is answered 400 (unless the write fails)
\* and the session is torn down: once remove_client has returned, the
\* session is out of the active set and released.
C7_BadRequestRemovesSession ==
    \A c \in ClientIds :
        (client[c].last_request = "bad" /\ ~(reactor.pc = "blocked" /\ Handling(c)))
        => /\ ~InClients(c)
           /\ client[c].released >= 1
           /\ ~client[c].write_failed => LastCode(client[c].sent) = 400

C7_Witness ==
    \E c \in ClientIds :
        /\ client[c].last_request = "bad"
        /\ Len(client[c].sent) = 1
        /\ client[c].sent[1].code = 400
        /\ client[c].released = 1
        /\ ~InClients(c)
        /\ reactor.pc = "idle"

\* C8: a session whose idle timer has fired is out of the active set, in
\* that state and every later one.
C8_TimeoutRemovesSession ==
    \A c \in ClientIds : client[c].timed_out => ~InClients(c)

\* C9: outside of its read handler, no session of the active set holds an
\* unterminated buffer of 1 MiB or more; and a scan that ends on an
\* unterminated buffer below the ceiling leaves the session in the set,
\* unreleased.
C9_CeilingRemovesSession ==
    /\ [](\A c \in ClientIds :
            (InClients(c) /\ ~Handling(c))
            => ~(ByteLen(client[c].current_message) >= MAX_MESSAGE
                 /\ NextRequest(c) = 0))
    /\ [][\A c \in ClientIds :
            (Scanning(c) /\ NextRequest(c) = 0
               /\ ByteLen(client[c].current_message) < MAX_MESSAGE
               /\ reactor'.pc = "idle")
            => InClientsNext(c) /\ client'[c].released = 0]_vars

\* one session removed with exactly 1 MiB and no terminator, another kept
\* with one byte less
C9_Witness ==
    \E c, d \in ClientIds :
        /\ ByteLen(client[c].current_message) = MAX_MESSAGE
        /\ NextRequest(c) = 0
        /\ client[c].released = 1
        /\ ~InClients(c)
        /\ ByteLen(client[d].current_message) = MAX_MESSAGE - 1
        /\ InClients(d)
        /\ reactor.pc = "idle"

\* C10: the request the scan reports ends with the first CR LF CR LF of the
\* buffer: of the bytes received, it covers the first k + 4 and no more.
C10_RequestEndsAtTerminator ==
    \A c \in ClientIds :
        (Scanning(c) /\ NextRequest(c) # 0)
        => Min(RequestLen(client[c].current_message, NextRequest(c)),
               ByteLen(client[c].current_message))
           = ByteOffset(client[c].current_message, NextRequest(c)) + 4

\* C11: once the socket of a session has been handed to the sink, no step
\* parses another request of that session or hands its socket over again.
C11_NothingAfterHandoff ==
    [][\A c \in ClientIds :
          client[c].handoffs >= 1
          => /\ client'[c].requests = client[c].requests
             /\ client'[c].handoffs = client[c].handoffs]_vars

\* C12: a response written while a request is handled carries the version
\* token of that request line, HTTP/1.0 when the line has none.
C12_ResponseEchoesVersion ==
    [][\A c \in ClientIds :
          (Scanning(c) /\ NextRequest(c) # 0
             /\ Len(client'[c].sent) = Len(client[c].sent) + 1)
          => client'[c].sent[Len(client'[c].sent)].version
             = ParseRequest(AppendNul(client[c].current_message)).version]_vars

\* lock x is in hand before operation i of ops
HeldBefore(ops, i) ==
    {x \in {"caps", "clients"} :
        Cardinality({j \in 1..(i - 1) : ops[j] = Lock(x)})
        > Cardinality({j \in 1..(i - 1) : ops[j] = Unlock(x)})}

\* C13: no handler asks for the caps lock with the clients lock in hand.
C13_CapsBeforeClients ==
    \A i \in 1..Len(locklog.ops) :
        locklog.ops[i] = Lock("caps") => "clients" \notin HeldBefore(locklog.ops, i)

\* the main loop takes the clients lock inside the caps lock (the 200 of
\* client_message could not be written) and gives both back
C13_Witness ==
    /\ locklog.thread = "reactor"
    /\ \E i \in 1..Len(locklog.ops) :
          /\ locklog.ops[i] = Lock("clients")
          /\ "caps" \in HeldBefore(locklog.ops, i)
    /\ locklog.ops[Len(locklog.ops)] = Unlock("caps")

\* C14: no handler asks for a lock it already has in hand.
C14_NoSelfRelock ==
    \A i \in 1..Len(locklog.ops) :
        locklog.ops[i].op = "lock"
        => locklog.ops[i].lock \notin HeldBefore(locklog.ops, i)

\* C16: a session of the active set that waits for its 200 is eventually
\* answered or removed, unless the process has died or the streaming
\* thread has locked itself out.
C16_WaitingEnds ==
    \A c \in ClientIds :
        (InClients(c) /\ client[c].waiting_200_ok)
        ~> \/ ~client[c].waiting_200_ok
           \/ ~InClients(c)
           \/ crashed
           \/ sink.pc = "deadlock"

\* C15: the step that hands a socket to the sink finds the endpoint's caps
\* resolved and leaves the session with its 200 sent, not waiting for it.
C15_HandoffAfterReady ==
    [][\A c \in ClientIds :
          (client[c].released = 0 /\ client'[c].released = 0
             /\ client'[c].handoffs = client[c].handoffs + 1)
          => /\ endpoints[client'[c].endpoint].caps_resolved
             /\ Count(client'[c].sent, 200) >= 1
             /\ ~client'[c].waiting_200_ok]_vars

\* C17: no handler goes on with a session after remove_client released it.
C17_NoUseAfterRemove == \A c \in ClientIds : ~client[c].uaf

\* C18: the readiness scan never dereferences the endpoint of a session
\* that has none.
C18_ScanSkipsUnrouted == sink.pc # "null_deref"

\* C19: when a request that ends at offset k is parsed successfully, the
\* buffer afterwards is the old buffer without its first k + 4 bytes.
C19_ConsumesExactlyTheRequest ==
    [][\A c \in ClientIds :
          (Scanning(c) /\ NextRequest(c) # 0
             /\ client'[c].routed = client[c].routed + 1
             /\ client'[c].released = 0
             /\ reactor'.pc = "scan")
          => client'[c].current_message
             = RemoveRange(client[c].current_message,
                   ByteOffset(client[c].current_message, NextRequest(c)) + 4)]_vars

\* C20: a session of the active set has its idle timer and its read watcher
\* both armed while none of its GETs was handed off, and both retired
\* (NULL) from the handoff on.
C20_SourcesTogether ==
    \A c \in ClientIds :
        InClients(c)
        => /\ client[c].isource = client[c].tosource
           /\ client[c].handoffs = 0 => client[c].isource = "armed"
           /\ client[c].handoffs >= 1 => client[c].isource = "null"

\* one session still armed after a HEAD that was answered 200, another
\* with both sources retired by its GET, both in the active set
C20_Witness ==
    \E c, d \in ClientIds :
        /\ InClients(c) /\ InClients(d)
        /\ client[c].handoffs = 0 /\ Count(client[c].sent, 200) >= 1
        /\ client[c].isource = "armed" /\ client[c].tosource = "armed"
        /\ client[d].handoffs = 1
        /\ client[d].isource = "null" /\ client[d].tosource = "null"

====
